---------------------------- MODULE Spec2Model ----------------------------
(***************************************************************************)
(* Model of the organisational data pipeline of 01_data_cloud:             *)
(*   data_generation/generate_org_data.py  (synthetic tables)              *)
(*   data_generation/save_org_data.py      (local raw files)               *)
(*   batch_etl/org_batch_etl.py            (upload to the blob container)  *)
(*   api/org_api.py                        (view builder + read API)       *)
(*                                                                         *)
(* A DataFrame is [columns |-> set of column names, rows |-> sequence of   *)
(* records over those columns].  Numbers that are floats in the source are *)
(* fixed-point integers: sampled ages and tenures in 1/SampleScale years,  *)
(* generated salaries in 1/SalaryScale cents, salaries of the view in      *)
(* cents (the view rounds them to two decimals).                           *)
(***************************************************************************)
EXTENDS Integers, Sequences, FiniteSets, TLC

VARIABLES
    gen_pc,            \* position of save_org_data.main
    departments_df,    \* generator: departments table
    job_positions_df,  \* generator: job positions table
    employees_df,      \* generator: employees table (grows row by row)
    raw_files,         \* local data/raw: file name -> DataFrame
    blobs,             \* blob container: blob path -> DataFrame
    CONN_STR,          \* AZURE_STORAGE_CONNECTION_STRING of the environment
    api_pc,            \* position of the import of org_api.py
    loaded,            \* _build_org_view: the tables loaded so far
    ORG_VIEW,          \* the in-memory view of the API
    response,          \* the last answer of an endpoint
    etl_status,        \* outcome of the last run_batch_upload
    etl_pc,            \* position of run_batch_upload
    files,             \* run_batch_upload: the listed files not yet uploaded
    local_path,        \* upload_file: the file being uploaded
    container_exists,  \* the blob container was created
    io_failures,       \* I/O calls that failed during the current run
    sample             \* the last (age, tenure) draw of the samplers

vars == <<gen_pc, departments_df, job_positions_df, employees_df, raw_files,
          blobs, CONN_STR, api_pc, loaded, ORG_VIEW, response, etl_status,
          etl_pc, files, local_path, container_exists, io_failures, sample>>

EtlVars == <<etl_status, etl_pc, files, local_path, container_exists, io_failures>>

(***************************************************************************)
(* Bounds of the model.                                                    *)
(***************************************************************************)
NumDepartments == 2     \* departments taken from the reference list
NumLevels == 2          \* seniority levels taken from the reference list
MaxEmployees == 2       \* n_employees
MaxLimit == 2           \* largest limit asked of /employees
MaxOffset == 3          \* largest offset asked of /employees
SampleScale == 4        \* sampled ages/tenures are in 1/SampleScale years
RawAgeLo == 20          \* smallest raw age drawn (years)
RawAgeHi == 67          \* largest raw age drawn (years)
RawTenureHi == 37       \* largest raw tenure drawn (years)

(***************************************************************************)
(* Program constants.                                                      *)
(***************************************************************************)
AGE_MIN == 22
AGE_MAX == 65
TENURE_CAP == 35
WORKING_AGE == 21
\* level factors are in tenths and department factors in hundredths
SalaryScale == 10 * 100

(***************************************************************************)
(* Generic helpers.                                                        *)
(***************************************************************************)
Min(a, b) == IF a <= b THEN a ELSE b
Max(a, b) == IF a >= b THEN a ELSE b
Clip(x, lo, hi) == Min(Max(x, lo), hi)
Range(s) == {s[i] : i \in DOMAIN s}

\* numpy/pandas round(): nearest integer multiple of `scale`, ties to even.
RoundHalfEven(x, scale) ==
    LET q == x \div scale
        r == x % scale
    IN  IF 2 * r < scale THEN q
        ELSE IF 2 * r > scale THEN q + 1
        ELSE IF q % 2 = 0 THEN q ELSE q + 1

RECURSIVE SumSeq(_)
SumSeq(s) == IF s = <<>> THEN 0 ELSE Head(s) + SumSeq(Tail(s))

RECURSIVE Flatten(_)
Flatten(ss) == IF ss = <<>> THEN <<>> ELSE Head(ss) \o Flatten(Tail(ss))

\* Missing values: NaN in a numeric column, NaN/None in an object column.
NaN == -1
NaNStr == "NaN"
None == "None"
StringColumns ==
    {"department_name", "department_type", "position_name", "seniority_level",
     "seniority_level_job", "job_title", "job_level", "department_name_dept",
     "department_type_dept", "position_name_job", "job_title_job", "job_level_job"}
IsNa(col, v) == IF col \in StringColumns THEN v = NaNStr ELSE v = NaN
NaOf(col) == IF col \in StringColumns THEN NaNStr ELSE NaN

DataFrame(cols, rows) == [columns |-> cols, rows |-> rows]
EmptyFrame == DataFrame({}, <<>>)


(***************************************************************************)
(* generate_org_data.py: entity factories.                                 *)
(***************************************************************************)
\* name, type, headcount_weight (in tenths)
DEPARTMENTS ==
    << <<"Operations", "Core", 40>>,
       <<"Commercial", "Core", 30>>,
       <<"IT & Data", "Core", 25>>,
       <<"Finance", "Corporate", 18>>,
       <<"Human Resources", "Corporate", 12>>,
       <<"Legal & Compliance", "Support", 7>>,
       <<"Strategy & Projects", "Support", 8>> >>

ALL_SENIORITY_LEVELS == <<"Junior", "SemiSenior", "Senior", "Lead", "Manager">>
seniority_levels == SubSeq(ALL_SENIORITY_LEVELS, 1, NumLevels)

DepartmentColumns ==
    {"department_id", "department_name", "department_type", "headcount_weight"}
JobPositionColumns ==
    {"job_position_id", "department_id", "position_name", "seniority_level"}
\* first_name, last_name, birth_date and hire_date are written by the
\* generator and read by no endpoint; the rows of the model do not carry them.
EmployeeColumns ==
    {"employee_id", "department_id", "job_position_id", "seniority_level",
     "age", "tenure_years", "salary"}

generate_departments ==
    DataFrame(DepartmentColumns,
        [i \in 1..NumDepartments |->
            [department_id |-> i,
             department_name |-> DEPARTMENTS[i][1],
             department_type |-> DEPARTMENTS[i][2],
             headcount_weight |-> DEPARTMENTS[i][3]]])

\* One position per (department, level), numbered from 1 in departments
\* order x levels order.
generate_job_positions(depts) ==
    LET L == Len(seniority_levels)
    IN  DataFrame(JobPositionColumns,
            [k \in 1..(Len(depts.rows) * L) |->
                LET dept == depts.rows[((k - 1) \div L) + 1]
                    level == seniority_levels[((k - 1) % L) + 1]
                IN  [job_position_id |-> k,
                     department_id |-> dept.department_id,
                     position_name |-> dept.department_name \o " " \o level,
                     seniority_level |-> level]])

(***************************************************************************)
(* generate_org_data.py: distribution generators, one element at a time.   *)
(* raw is the sample drawn from the random source, in 1/SampleScale years. *)
(***************************************************************************)
generate_age(raw) ==
    RoundHalfEven(Clip(raw, AGE_MIN * SampleScale, AGE_MAX * SampleScale),
                  SampleScale)

\* generate_tenure_years without the cap at age - 21.
generate_tenure_years_uncapped(raw, age) ==
    RoundHalfEven(Clip(raw, 0, TENURE_CAP * SampleScale), SampleScale)

generate_tenure_years(raw, age) ==
    LET tenure == Clip(raw, 0, TENURE_CAP * SampleScale)
        max_tenure == Max(0, age - WORKING_AGE) * SampleScale
    IN  RoundHalfEven(Min(tenure, max_tenure), SampleScale)

\* Factors in tenths (level) and hundredths (department type).
level_factor(lvl) ==
    CASE lvl = "Junior" -> 8
      [] lvl = "SemiSenior" -> 10
      [] lvl = "Senior" -> 13
      [] lvl = "Lead" -> 16
      [] lvl = "Manager" -> 20
      [] OTHER -> 10

dept_type_factor(type) ==
    CASE type = "Core" -> 110
      [] type = "Corporate" -> 100
      [] type = "Support" -> 95
      [] OTHER -> 100

dept_type_of(depts, dept_id) ==
    LET hit == SelectSeq(depts.rows, LAMBDA d : d.department_id = dept_id)
    IN  IF hit = <<>> THEN "Corporate" ELSE hit[Len(hit)].department_type

\* base is the log-normal draw in cents; the result is in 1/SalaryScale cents.
generate_salary(level, dept_id, depts, base) ==
    base * level_factor(level) * dept_type_factor(dept_type_of(depts, dept_id))

\* grouped_positions.get((dept_id, level)): ids of the exact matches.
grouped_positions(positions, dept_id, level) ==
    LET hit == SelectSeq(positions.rows,
                   LAMBDA p : p.department_id = dept_id /\ p.seniority_level = level)
    IN  [i \in 1..Len(hit) |-> hit[i].job_position_id]

\* Any position of the department.
department_positions(positions, dept_id) ==
    LET hit == SelectSeq(positions.rows, LAMBDA p : p.department_id = dept_id)
    IN  [i \in 1..Len(hit) |-> hit[i].job_position_id]

\* candidates whose fallback takes the positions of every department.
candidates_any_department(positions, dept_id, level) ==
    IF grouped_positions(positions, dept_id, level) # <<>>
    THEN grouped_positions(positions, dept_id, level)
    ELSE [i \in DOMAIN positions.rows |-> positions.rows[i].job_position_id]

\* The list rng.choice draws the employee's position from.
candidates(positions, dept_id, level) ==
    IF grouped_positions(positions, dept_id, level) # <<>>
    THEN grouped_positions(positions, dept_id, level)
    ELSE department_positions(positions, dept_id)


(***************************************************************************)
(* org_api.py: the view builder.                                           *)
(***************************************************************************)
\* merge with how="inner": a left row that matches no right row is dropped.
merge_inner(left, right, on, rsuffix) ==
    LET overlap == (left.columns \cap right.columns) \ {on}
        rname(c) == IF c \in overlap THEN c \o rsuffix ELSE c
        rcols == right.columns \ {on}
        cols == left.columns \cup {rname(c) : c \in rcols}
        origin(c) == CHOOSE rc \in rcols : rname(rc) = c
        joined(l, r) ==
            [c \in cols |-> IF c \in left.columns THEN l[c] ELSE r[origin(c)]]
        expand(l) ==
            LET m == SelectSeq(right.rows, LAMBDA r : r[on] = l[on])
            IN  [j \in 1..Len(m) |-> joined(l, m[j])]
    IN  DataFrame(cols, Flatten([i \in 1..Len(left.rows) |-> expand(left.rows[i])]))

\* pandas left.merge(right, how="left", on=on, suffixes=("", rsuffix)):
\* every left row, in order, once per right row with the same key (right
\* order), or once with the right columns missing when no right row has it.
\* A right column whose name the left also has gets rsuffix.
merge_left(left, right, on, rsuffix) ==
    LET overlap == (left.columns \cap right.columns) \ {on}
        rname(c) == IF c \in overlap THEN c \o rsuffix ELSE c
        rcols == right.columns \ {on}
        cols == left.columns \cup {rname(c) : c \in rcols}
        origin(c) == CHOOSE rc \in rcols : rname(rc) = c
        joined(l, r) ==
            [c \in cols |-> IF c \in left.columns THEN l[c] ELSE r[origin(c)]]
        unmatched(l) ==
            [c \in cols |-> IF c \in left.columns THEN l[c] ELSE NaOf(c)]
        expand(l) ==
            LET m == SelectSeq(right.rows, LAMBDA r : r[on] = l[on])
            IN  IF m = <<>> THEN <<unmatched(l)>>
                ELSE [j \in 1..Len(m) |-> joined(l, m[j])]
    IN  DataFrame(cols, Flatten([i \in 1..Len(left.rows) |-> expand(left.rows[i])]))

\* astype(float).round(2) of the salary column: 1/SalaryScale cents -> cents.
\* tenure_years is integral, so its rounding changes nothing; so do the
\* integer casts of the id columns, which are integers already.
round_columns(df) ==
    DataFrame(df.columns,
        [i \in 1..Len(df.rows) |->
            [c \in df.columns |->
                IF c = "salary" THEN RoundHalfEven(df.rows[i][c], SalaryScale)
                ELSE df.rows[i][c]]])

_build_org_view(depts, positions, employees) ==
    LET employees_positions == merge_left(employees, positions, "job_position_id", "_job")
        org_view == merge_left(employees_positions, depts, "department_id", "_dept")
    IN  round_columns(org_view)

(***************************************************************************)
(* org_api.py: the endpoints, as functions of the view.                    *)
(***************************************************************************)
\* An optional query parameter: <<>> when absent, <<v>> when given.
Absent == <<>>
Given(v) == <<v>>

\* row.get(col): None when the row has no such column.
RowGet(row, col) == IF col \in DOMAIN row THEN row[col] ELSE None

EmployeeItem(row) ==
    [employee_id |-> row["employee_id"],
     department_id |-> row["department_id"],
     department_name |-> RowGet(row, "department_name"),
     job_position_id |-> row["job_position_id"],
     job_title |-> RowGet(row, "job_title"),
     job_level |-> RowGet(row, "job_level"),
     salary |-> IF "salary" \in DOMAIN row THEN row["salary"] ELSE 0,
     tenure_years |-> IF "tenure_years" \in DOMAIN row THEN row["tenure_years"] ELSE 0,
     age |-> IF "age" \in DOMAIN row /\ ~IsNa("age", row["age"])
             THEN row["age"] ELSE None]

\* DataFrame.sort_values(col, ascending) with the default kind="quicksort":
\* every order of the rows that is sorted by col; the order of rows with
\* equal keys is whatever the unstable sort leaves.
RECURSIVE SortedOrders(_, _, _, _)
SortedOrders(rows, idx, col, ascending) ==
    IF idx = {} THEN {<<>>}
    ELSE LET first == {i \in idx : \A j \in idx :
                          IF ascending THEN rows[i][col] <= rows[j][col]
                          ELSE rows[i][col] >= rows[j][col]}
         IN  UNION {{<<rows[i]>> \o rest :
                        rest \in SortedOrders(rows, idx \ {i}, col, ascending)} :
                    i \in first}

\* sort_values that leaves the rows as they are.
sort_values_skipped(rows, col, ascending) == {rows}

sort_values(rows, col, ascending) == SortedOrders(rows, DOMAIN rows, col, ascending)

\* .iloc[offset : offset + limit]
iloc(rows, offset, limit) ==
    SubSeq(rows, offset + 1, Min(offset + limit, Len(rows)))

\* df[df["department_id"] == department_id], skipped when the parameter is
\* absent or the view has no such column.
filter_department(df, department_id) ==
    IF department_id # Absent /\ "department_id" \in df.columns
    THEN DataFrame(df.columns,
             SelectSeq(df.rows, LAMBDA r : r["department_id"] = department_id[1]))
    ELSE df

\* df[df["job_level"] == job_level], skipped when the parameter is absent or
\* the view has no job_level column.
filter_job_level(df, job_level) ==
    IF job_level # Absent /\ "job_level" \in df.columns
    THEN DataFrame(df.columns,
             SelectSeq(df.rows, LAMBDA r : r["job_level"] = job_level[1]))
    ELSE df

\* The possible bodies of GET /employees.
list_employees(view, department_id, job_level, limit, offset) ==
    LET df == filter_job_level(filter_department(view, department_id), job_level)
    IN  {[i \in 1..Len(iloc(s, offset, limit)) |-> EmployeeItem(iloc(s, offset, limit)[i])] :
            s \in sort_values(df.rows, "employee_id", TRUE)}

\* get_employee that takes the first row whose id is not below the argument.
get_employee_first_not_below(view, employee_id) ==
    IF "employee_id" \notin view.columns
    THEN [status |-> 500, body |-> None]
    ELSE LET row == SelectSeq(view.rows, LAMBDA r : r["employee_id"] >= employee_id)
         IN  IF row = <<>> THEN [status |-> 404, body |-> None]
             ELSE [status |-> 200, body |-> EmployeeItem(row[1])]

\* GET /employees/{employee_id}: [status, body].
get_employee(view, employee_id) ==
    IF "employee_id" \notin view.columns
    THEN [status |-> 500, body |-> None]
    ELSE LET row == SelectSeq(view.rows, LAMBDA r : r["employee_id"] = employee_id)
         IN  IF row = <<>> THEN [status |-> 404, body |-> None]
             ELSE [status |-> 200, body |-> EmployeeItem(row[1])]

\* The keys of a groupby, in the sorted order pandas gives the groups.
RECURSIVE SortedKeys(_, _)
SortedKeys(keys, rank) ==
    IF keys = {} THEN <<>>
    ELSE LET k == CHOOSE x \in keys : \A y \in keys : rank[x] <= rank[y]
         IN  <<k>> \o SortedKeys(keys \ {k}, rank)

\* df.groupby(["department_id", "department_name"]).size(): one row per
\* (id, name) pair, pairs with a missing value dropped (dropna=True), in
\* ascending key order.
department_headcount(df) ==
    LET kept == SelectSeq(df.rows, LAMBDA r :
                    /\ ~IsNa("department_id", r["department_id"])
                    /\ ~IsNa("department_name", r["department_name"]))
        keys == {<<kept[i]["department_id"], kept[i]["department_name"]>> : i \in DOMAIN kept}
        order == SortedKeys(keys, [k \in keys |-> k[1]])
    IN  [i \in 1..Len(order) |->
            [department_id |-> order[i][1],
             department_name |-> order[i][2],
             headcount |-> Len(SelectSeq(kept, LAMBDA r :
                              /\ r["department_id"] = order[i][1]
                              /\ r["department_name"] = order[i][2]))]]

\* The possible answers of GET /departments: [status, body].
list_departments(view) ==
    IF ~({"department_id", "department_name"} \subseteq view.columns)
    THEN {[status |-> 500, body |-> None]}
    ELSE {[status |-> 200, body |-> s] :
            s \in sort_values(department_headcount(view), "headcount", FALSE)}

\* Lexicographic rank of the level names a groupby sorts.
AlphaRank(level) ==
    CASE level = "Junior" -> 1
      [] level = "Lead" -> 2
      [] level = "Manager" -> 3
      [] level = "N/A" -> 4
      [] level = "SemiSenior" -> 5
      [] level = "Senior" -> 6
      [] OTHER -> 7

RECURSIVE SeqMin(_)
SeqMin(s) == IF Len(s) = 1 THEN s[1] ELSE Min(s[1], SeqMin(Tail(s)))
RECURSIVE SeqMax(_)
SeqMax(s) == IF Len(s) = 1 THEN s[1] ELSE Max(s[1], SeqMax(Tail(s)))

\* mean of integer cents rounded to two decimals, i.e. to a cent.
Mean2(s) == RoundHalfEven(SumSeq(s), Len(s))

\* groupby("job_level").agg(mean, min, max, size), rounded: one entry per
\* non-missing job_level value, in sorted order.
salary_levels(df) ==
    LET kept == SelectSeq(df.rows, LAMBDA r : ~IsNa("job_level", r["job_level"]))
        levels == {kept[i]["job_level"] : i \in DOMAIN kept}
        order == SortedKeys(levels, [l \in levels |-> AlphaRank(l)])
        salaries(level) ==
            LET g == SelectSeq(kept, LAMBDA r : r["job_level"] = level)
            IN  [i \in 1..Len(g) |-> g[i]["salary"]]
    IN  [i \in 1..Len(order) |->
            [job_level |-> order[i],
             avg_salary |-> Mean2(salaries(order[i])),
             min_salary |-> SeqMin(salaries(order[i])),
             max_salary |-> SeqMax(salaries(order[i])),
             count |-> Len(salaries(order[i]))]]

\* df.assign(job_level="N/A")
assign_job_level(df) ==
    DataFrame(df.columns \cup {"job_level"},
        [i \in 1..Len(df.rows) |->
            [c \in df.columns \cup {"job_level"} |->
                IF c = "job_level" THEN "N/A" ELSE df.rows[i][c]]])

\* GET /analytics/salary-summary: [status, body].
salary_summary(view) ==
    IF "salary" \notin view.columns
    THEN [status |-> 500, body |-> None]
    ELSE LET all == [i \in 1..Len(view.rows) |-> view.rows[i]["salary"]]
             grouped == IF "job_level" \in view.columns
                        THEN salary_levels(view)
                        ELSE salary_levels(assign_job_level(view))
         IN  [status |-> 200,
              body |-> [overall_avg_salary |-> IF all = <<>> THEN NaN ELSE Mean2(all),
                        overall_min_salary |-> IF all = <<>> THEN NaN ELSE SeqMin(all),
                        overall_max_salary |-> IF all = <<>> THEN NaN ELSE SeqMax(all),
                        levels |-> grouped]]

(***************************************************************************)
(* Files and blob paths.                                                   *)
(***************************************************************************)
BASE_PREFIX == "org_data/v1"
ENTITIES == <<"departments", "job_positions", "employees">>

\* A file of data/raw: Path.stem, Path.suffix, Path.name and its content.
RawFile(stem, suffix, data) ==
    [stem |-> stem, suffix |-> suffix, name |-> stem \o suffix, data |-> data]

\* No file is being uploaded.
NoFile == RawFile("", "", EmptyFrame)

\* The destination without the folder of the entity.
build_blob_path_flat(base_prefix, file) ==
    base_prefix \o "/" \o file.name

\* org_batch_etl.build_blob_path; the stems written by save_org_data hold no
\* dot, so stem.split(".")[0] is the stem.
build_blob_path(base_prefix, file) ==
    base_prefix \o "/" \o file.stem \o "/" \o file.name

\* The blob _load_parquet_from_datalake(prefix, filename) downloads.
load_blob_path(prefix, filename) ==
    BASE_PREFIX \o "/" \o prefix \o "/" \o filename

\* save_as_csv + save_as_parquet of the three tables.
saved_files(depts, positions, employees) ==
    {RawFile("departments", ".csv", depts),
     RawFile("departments", ".parquet", depts),
     RawFile("job_positions", ".csv", positions),
     RawFile("job_positions", ".parquet", positions),
     RawFile("employees", ".csv", employees),
     RawFile("employees", ".parquet", employees)}

\* The container after every file of `local_files` was uploaded with overwrite.
upload_all(container, local_files) ==
    LET paths == {build_blob_path(BASE_PREFIX, f) : f \in local_files}
        data(path) == (CHOOSE f \in local_files : build_blob_path(BASE_PREFIX, f) = path).data
    IN  [path \in paths \cup DOMAIN container |->
            IF path \in paths THEN data(path) ELSE container[path]]

(***************************************************************************)
(* The draws of the random sources.                                        *)
(***************************************************************************)
\* Raw ages and tenures the samplers are checked on (1/SampleScale years).
RawAges == (RawAgeLo * SampleScale)..(RawAgeHi * SampleScale)
RawTenures == 0..(RawTenureHi * SampleScale)
\* The draws of an employee of the pipeline.
EmployeeAgeDraws == {37 * SampleScale + (SampleScale \div 2)}
EmployeeTenureDraws == {3 * SampleScale}
BaseSalaries == {491477}

NoResponse == [endpoint |-> "none", args |-> <<>>, status |-> 0, body |-> None]
NoSample == [age_raw |-> 0, tenure_raw |-> 0, age |-> 0, tenure_years |-> 0]
NothingLoaded == [e \in Range(ENTITIES) |-> EmptyFrame]

(***************************************************************************)
(* save_org_data.main, step by step.                                       *)
(***************************************************************************)
ApiVars == <<api_pc, loaded, ORG_VIEW, response>>
GenVars == <<gen_pc, departments_df, job_positions_df, employees_df>>

\* ensure_directories(); generate_departments()
GenerateDepartments ==
    /\ gen_pc = "departments"
    /\ departments_df' = generate_departments
    /\ raw_files' = [raw_files EXCEPT !.exists = TRUE]
    /\ gen_pc' = "job_positions"
    /\ UNCHANGED <<job_positions_df, employees_df, blobs, CONN_STR, ApiVars,
                   EtlVars, sample>>

GenerateJobPositions ==
    /\ gen_pc = "job_positions"
    /\ job_positions_df' = generate_job_positions(departments_df)
    /\ gen_pc' = "employees"
    /\ UNCHANGED <<departments_df, employees_df, raw_files, blobs, CONN_STR,
                   ApiVars, EtlVars, sample>>

\* One employee of generate_employees: the department and level drawn, the
\* position chosen among the candidates, age, tenure and salary sampled.
\* rng.choice of an empty candidate list raises and no table is produced.
employee_row(i, dept_id, level, job_position_id, age_raw, tenure_raw, base) ==
    [employee_id |-> i,
     department_id |-> dept_id,
     job_position_id |-> job_position_id,
     seniority_level |-> level,
     age |-> generate_age(age_raw),
     tenure_years |-> generate_tenure_years(tenure_raw, generate_age(age_raw)),
     salary |-> generate_salary(level, dept_id, departments_df, base)]

GenerateEmployee ==
    /\ gen_pc = "employees"
    /\ Len(employees_df.rows) < MaxEmployees
    /\ \E d \in DOMAIN departments_df.rows, level \in Range(seniority_levels) :
        LET dept_id == departments_df.rows[d].department_id
            c == candidates(job_positions_df, dept_id, level)
        IN  IF c = <<>>
            THEN /\ gen_pc' = "error"
                 /\ employees_df' = EmptyFrame
            ELSE /\ \E k \in DOMAIN c, age_raw \in EmployeeAgeDraws,
                       tenure_raw \in EmployeeTenureDraws, base \in BaseSalaries :
                        employees_df' = DataFrame(EmployeeColumns,
                            Append(employees_df.rows,
                                employee_row(Len(employees_df.rows) + 1, dept_id,
                                    level, c[k], age_raw, tenure_raw, base)))
                 /\ gen_pc' = "employees"
    /\ UNCHANGED <<departments_df, job_positions_df, raw_files, blobs,
                   CONN_STR, ApiVars, EtlVars, sample>>

\* n_employees rows were generated.
FinishEmployees ==
    /\ gen_pc = "employees"
    /\ Len(employees_df.rows) >= 1
    /\ gen_pc' = "save"
    /\ UNCHANGED <<departments_df, job_positions_df, employees_df, raw_files,
                   blobs, CONN_STR, ApiVars, EtlVars, sample>>

SaveRawFiles ==
    /\ gen_pc = "save"
    /\ raw_files' = [exists |-> TRUE,
                     files |-> saved_files(departments_df, job_positions_df, employees_df)]
    /\ gen_pc' = "done"
    /\ UNCHANGED <<departments_df, job_positions_df, employees_df, blobs,
                   CONN_STR, ApiVars, EtlVars, sample>>

(***************************************************************************)
(* org_batch_etl.run_batch_upload.                                         *)
(***************************************************************************)
\* The position of a file name in the listing of data/raw by name.
NameRank(name) ==
    CASE name = "departments.csv" -> 1
      [] name = "departments.parquet" -> 2
      [] name = "employees.csv" -> 3
      [] name = "employees.parquet" -> 4
      [] name = "job_positions.csv" -> 5
      [] name = "job_positions.parquet" -> 6
      [] OTHER -> 7

\* list(iter_raw_files()) for an existing data/raw: the .csv and .parquet
\* files in the order RAW_PATH.glob("*") yields them, which is the order of
\* the directory listing: by name, ascending or descending.
iter_raw_files(dir) ==
    LET found == {f \in dir : f.suffix \in {".csv", ".parquet"}}
        rank == [f \in found |-> NameRank(f.name)]
        ascending == SortedKeys(found, rank)
    IN  {ascending, [i \in 1..Len(ascending) |-> ascending[Len(ascending) + 1 - i]]}

\* run_batch_upload starts: load_storage_config raises ValueError without a
\* connection string; get_blob_service_client.
LoadStorageConfig ==
    /\ etl_pc = "idle"
    /\ io_failures' = {}
    /\ files' = <<>>
    /\ local_path' = NoFile
    /\ IF CONN_STR = ""
       THEN etl_status' = "ValueError" /\ etl_pc' = "idle"
       ELSE etl_status' = "running" /\ etl_pc' = "iter_raw_files"
    /\ UNCHANGED <<GenVars, raw_files, blobs, CONN_STR, ApiVars,
                   container_exists, sample>>

\* The listing without the test of RAW_PATH.exists(): a missing directory
\* lists no file.
IterRawFilesUnchecked ==
    /\ etl_pc = "iter_raw_files"
    /\ files' \in iter_raw_files(raw_files.files)
    /\ IF files' = <<>>
       THEN etl_status' = "no_files" /\ etl_pc' = "idle"
       ELSE etl_status' = "running" /\ etl_pc' = "upload"
    /\ UNCHANGED <<GenVars, raw_files, blobs, CONN_STR, ApiVars, local_path,
                   container_exists, io_failures, sample>>

\* files = list(iter_raw_files()): FileNotFoundError without data/raw, else
\* the .csv and .parquet files of the directory; return when there is none.
IterRawFiles ==
    /\ etl_pc = "iter_raw_files"
    /\ IF ~raw_files.exists
       THEN /\ etl_status' = "FileNotFoundError"
            /\ etl_pc' = "idle"
            /\ UNCHANGED files
       ELSE /\ files' \in iter_raw_files(raw_files.files)
            /\ IF files' = <<>>
               THEN etl_status' = "no_files" /\ etl_pc' = "idle"
               ELSE etl_status' = "running" /\ etl_pc' = "upload"
    /\ UNCHANGED <<GenVars, raw_files, blobs, CONN_STR, ApiVars, local_path,
                   container_exists, io_failures, sample>>

\* for file_path in files: the next file; upload_file is entered.
NextFile ==
    /\ etl_pc = "upload"
    /\ files # <<>>
    /\ local_path' = Head(files)
    /\ files' = Tail(files)
    /\ etl_pc' = "create_container"
    /\ UNCHANGED <<GenVars, raw_files, blobs, CONN_STR, ApiVars, etl_status,
                   container_exists, io_failures, sample>>

\* What container_client.create_container() does: it creates the container,
\* raises ResourceExistsError when the container exists, or fails otherwise
\* (the request is refused or does not reach the storage).
CreateContainerOutcomes ==
    (IF container_exists THEN {"ResourceExistsError"} ELSE {"created"})
        \cup {"HttpResponseError"}

\* upload_file: try: create_container() except Exception: pass
CreateContainer ==
    /\ etl_pc = "create_container"
    /\ \E outcome \in CreateContainerOutcomes :
        /\ container_exists' = (container_exists \/ outcome = "created")
        /\ io_failures' = IF outcome = "HttpResponseError"
                          THEN io_failures \cup {"create_container"}
                          ELSE io_failures
    /\ etl_pc' = "upload_blob"
    /\ UNCHANGED <<GenVars, raw_files, blobs, CONN_STR, ApiVars, etl_status,
                   files, local_path, sample>>

\* upload_file: open(local_path, "rb") and upload_blob(f, overwrite=True).
\* Either call may raise; the upload raises when the container is missing.
\* An exception leaves run_batch_upload.
UploadBlob ==
    /\ etl_pc = "upload_blob"
    /\ \E read_ok \in BOOLEAN, upload_ok \in BOOLEAN :
        IF ~read_ok
        THEN /\ io_failures' = io_failures \cup {"open"}
             /\ etl_status' = "failed"
             /\ etl_pc' = "idle"
             /\ UNCHANGED blobs
        ELSE IF ~upload_ok \/ ~container_exists
        THEN /\ io_failures' = io_failures \cup {"upload_blob"}
             /\ etl_status' = "failed"
             /\ etl_pc' = "idle"
             /\ UNCHANGED blobs
        ELSE /\ blobs' = upload_all(blobs, {local_path})
             /\ etl_pc' = "upload"
             /\ UNCHANGED <<etl_status, io_failures>>
    /\ UNCHANGED <<GenVars, raw_files, CONN_STR, ApiVars, files, local_path,
                   container_exists, sample>>

\* The loop is over: "Proceso batch completado."
BatchCompleted ==
    /\ etl_pc = "upload"
    /\ files = <<>>
    /\ etl_status' = "completed"
    /\ etl_pc' = "idle"
    /\ UNCHANGED <<GenVars, raw_files, blobs, CONN_STR, ApiVars, files,
                   local_path, container_exists, io_failures, sample>>

(***************************************************************************)
(* org_api.py: import of the module (start of the service).                *)
(***************************************************************************)
\* The start without the check of the connection string.
ApiCheckConfigSkipped ==
    /\ api_pc = "import"
    /\ api_pc' = "load_departments"
    /\ UNCHANGED <<GenVars, raw_files, blobs, CONN_STR, loaded, ORG_VIEW,
                   response, EtlVars, sample>>

\* if not CONN_STR: raise RuntimeError
ApiCheckConfig ==
    /\ api_pc = "import"
    /\ api_pc' = IF CONN_STR = "" THEN "crashed" ELSE "load_departments"
    /\ UNCHANGED <<GenVars, raw_files, blobs, CONN_STR, loaded, ORG_VIEW,
                   response, EtlVars, sample>>

\* _load_parquet_from_datalake(entity, entity.parquet): the download raises
\* when the blob is missing or the storage fails (io_ok = FALSE).
ApiLoad(entity, at, next) ==
    /\ api_pc = at
    /\ \E io_ok \in BOOLEAN :
        LET path == load_blob_path(entity, entity \o ".parquet")
        IN  IF io_ok /\ path \in DOMAIN blobs
            THEN /\ loaded' = [loaded EXCEPT ![entity] = blobs[path]]
                 /\ api_pc' = next
            ELSE /\ api_pc' = "crashed"
                 /\ UNCHANGED loaded
    /\ UNCHANGED <<GenVars, raw_files, blobs, CONN_STR, ORG_VIEW, response,
                   EtlVars, sample>>

ApiLoadDepartments == ApiLoad("departments", "load_departments", "load_job_positions")
ApiLoadJobPositions == ApiLoad("job_positions", "load_job_positions", "load_employees")
ApiLoadEmployees == ApiLoad("employees", "load_employees", "merge")

\* The merges and casts of _build_org_view; ORG_VIEW is assigned and the
\* application object with its routes is created.
ApiBuildView ==
    /\ api_pc = "merge"
    /\ ORG_VIEW' = _build_org_view(loaded["departments"], loaded["job_positions"],
                                   loaded["employees"])
    /\ api_pc' = "ready"
    /\ UNCHANGED <<GenVars, raw_files, blobs, CONN_STR, loaded, response,
                   EtlVars, sample>>

(***************************************************************************)
(* org_api.py: requests.                                                   *)
(***************************************************************************)
QueryFrame == <<GenVars, raw_files, blobs, CONN_STR, api_pc, loaded, ORG_VIEW,
                EtlVars, sample>>

DepartmentArgs == {Absent} \cup {Given(d) : d \in 1..(NumDepartments + 1)}
JobLevelArgs == {Absent} \cup {Given(l) : l \in Range(seniority_levels)}

\* The service is ready and no request is being answered.
Idle == api_pc = "ready" /\ response.endpoint = "none"

HealthCheck ==
    /\ Idle
    /\ response' = [endpoint |-> "health", args |-> <<>>, status |-> 200,
                    body |-> [status |-> "ok"]]
    /\ UNCHANGED QueryFrame

ListEmployees ==
    /\ Idle
    /\ \E department_id \in DepartmentArgs, job_level \in JobLevelArgs,
          limit \in 1..MaxLimit, offset \in 0..MaxOffset :
        \E body \in list_employees(ORG_VIEW, department_id, job_level, limit, offset) :
            response' = [endpoint |-> "list_employees",
                         args |-> [department_id |-> department_id,
                                   job_level |-> job_level,
                                   limit |-> limit, offset |-> offset],
                         status |-> 200, body |-> body]
    /\ UNCHANGED QueryFrame

GetEmployee ==
    /\ Idle
    /\ \E employee_id \in 0..(MaxEmployees + 1) :
        response' = [endpoint |-> "get_employee",
                     args |-> [employee_id |-> employee_id],
                     status |-> get_employee(ORG_VIEW, employee_id).status,
                     body |-> get_employee(ORG_VIEW, employee_id).body]
    /\ UNCHANGED QueryFrame

ListDepartments ==
    /\ Idle
    /\ \E r \in list_departments(ORG_VIEW) :
        response' = [endpoint |-> "list_departments", args |-> <<>>,
                     status |-> r.status, body |-> r.body]
    /\ UNCHANGED QueryFrame

\* The summary that adds the job_level column to the shared frame instead
\* of a copy (df["job_level"] = "N/A" for df.assign(job_level="N/A")).
SalarySummaryInPlace ==
    /\ Idle
    /\ response' = [endpoint |-> "salary_summary", args |-> <<>>,
                    status |-> salary_summary(ORG_VIEW).status,
                    body |-> salary_summary(ORG_VIEW).body]
    /\ ORG_VIEW' = IF {"salary"} \subseteq ORG_VIEW.columns
                      /\ "job_level" \notin ORG_VIEW.columns
                   THEN assign_job_level(ORG_VIEW)
                   ELSE ORG_VIEW
    /\ UNCHANGED <<GenVars, raw_files, blobs, CONN_STR, api_pc, loaded,
                   EtlVars, sample>>

SalarySummary ==
    /\ Idle
    /\ response' = [endpoint |-> "salary_summary", args |-> <<>>,
                    status |-> salary_summary(ORG_VIEW).status,
                    body |-> salary_summary(ORG_VIEW).body]
    /\ UNCHANGED QueryFrame

\* The answer is sent; the service holds nothing of the request.
Reply ==
    /\ response.endpoint # "none"
    /\ response' = NoResponse
    /\ UNCHANGED QueryFrame

(***************************************************************************)
(* The pipeline: generator, batch upload, service.                         *)
(***************************************************************************)
Init ==
    /\ gen_pc = "departments"
    /\ departments_df = EmptyFrame
    /\ job_positions_df = EmptyFrame
    /\ employees_df = EmptyFrame
    /\ raw_files = [exists |-> FALSE, files |-> {}]
    /\ blobs = <<>>
    /\ CONN_STR \in {"", "UseDevelopmentStorage=true"}
    /\ api_pc = "import"
    /\ loaded = NothingLoaded
    /\ ORG_VIEW = EmptyFrame
    /\ response = NoResponse
    /\ etl_status = "idle"
    /\ etl_pc = "idle"
    /\ files = <<>>
    /\ local_path = NoFile
    /\ container_exists = FALSE
    /\ io_failures = {}
    /\ sample = NoSample

\* The three scripts are started by hand, one at a time: none is started
\* while another one is running or a request is being answered.
GeneratorRunning == gen_pc \in {"job_positions", "employees", "save"}
UploadRunning == etl_pc # "idle"
ServiceStarting ==
    api_pc \in {"load_departments", "load_job_positions", "load_employees", "merge"}
ServiceAnswering == response.endpoint # "none"

Next ==
    \/ ~UploadRunning /\ ~ServiceStarting /\ GenerateDepartments
    \/ GenerateJobPositions
    \/ GenerateEmployee
    \/ FinishEmployees
    \/ SaveRawFiles
    \/ ~GeneratorRunning /\ ~ServiceStarting /\ ~ServiceAnswering /\ LoadStorageConfig
    \/ IterRawFiles
    \/ NextFile
    \/ CreateContainer
    \/ UploadBlob
    \/ BatchCompleted
    \/ ~GeneratorRunning /\ ~UploadRunning /\ ApiCheckConfig
    \/ ApiLoadDepartments
    \/ ApiLoadJobPositions
    \/ ApiLoadEmployees
    \/ ApiBuildView
    \/ ~UploadRunning /\ HealthCheck
    \/ ~UploadRunning /\ ListEmployees
    \/ ~UploadRunning /\ GetEmployee
    \/ ~UploadRunning /\ ListDepartments
    \/ ~UploadRunning /\ SalarySummary
    \/ Reply

Spec == Init /\ [][Next]_vars


(***************************************************************************)
(* The service over tables found in the container (written by any run of   *)
(* the pipeline or by hand): keys may repeat, a foreign key may match no   *)
(* row, a blob may be missing, and the job positions table carries either  *)
(* the generator's columns or job_title/job_level.                         *)
(***************************************************************************)
ExtDepartmentIds == {<<>>, <<1>>, <<2, 1>>}
ExtPositionIds == {<<>>, <<1>>, <<1, 2>>}
\* Tables in which a key repeats.
DupDepartmentIds == ExtDepartmentIds \cup {<<1, 1>>, <<2, 1, 2>>}
DupPositionIds == ExtPositionIds \cup {<<2, 2>>, <<1, 2, 1>>}
ExtForeignKeys == {1, 2}
ExtSalary(employee_id) == 2500500 * employee_id

ext_department(id) ==
    [department_id |-> id,
     department_name |-> DEPARTMENTS[id][1],
     department_type |-> DEPARTMENTS[id][2],
     headcount_weight |-> DEPARTMENTS[id][3]]

ext_level(id) == seniority_levels[((id - 1) % Len(seniority_levels)) + 1]

ext_position(id, schema) ==
    IF schema = "generator"
    THEN [job_position_id |-> id, department_id |-> 1,
          position_name |-> DEPARTMENTS[1][1] \o " " \o ext_level(id),
          seniority_level |-> ext_level(id)]
    ELSE [job_position_id |-> id, department_id |-> 1,
          job_title |-> DEPARTMENTS[1][1] \o " " \o ext_level(id),
          job_level |-> ext_level(id)]

ApiJobPositionColumns == {"job_position_id", "department_id", "job_title", "job_level"}

DepartmentTables(idseqs) ==
    {DataFrame(DepartmentColumns, [i \in DOMAIN ids |-> ext_department(ids[i])]) :
        ids \in idseqs}

PositionTables(idseqs) ==
    {DataFrame(IF schema = "generator" THEN JobPositionColumns ELSE ApiJobPositionColumns,
               [i \in DOMAIN ids |-> ext_position(ids[i], schema)]) :
        ids \in idseqs, schema \in {"generator", "api"}}

\* Employees with unique ids, stored in ascending or descending id order.
ExtEmployeeTables ==
    {DataFrame(EmployeeColumns,
        [i \in 1..n |->
            LET id == IF asc THEN i ELSE n + 1 - i
            IN  [employee_id |-> id,
                 department_id |-> fk[id][1],
                 job_position_id |-> fk[id][2],
                 seniority_level |-> ext_level(id),
                 age |-> 30, tenure_years |-> 3,
                 salary |-> ExtSalary(id)]]) :
        n \in 1..MaxEmployees, asc \in BOOLEAN,
        fk \in [1..MaxEmployees -> ExtForeignKeys \X ExtForeignKeys]}

parquet_path(entity) == load_blob_path(entity, entity \o ".parquet")

Containers(depts, positions, presences) ==
    {[path \in {parquet_path(entity) : entity \in present} |->
        CASE path = parquet_path("departments") -> d
          [] path = parquet_path("job_positions") -> p
          [] path = parquet_path("employees") -> emp] :
        d \in depts, p \in positions, emp \in ExtEmployeeTables,
        present \in presences}

ExtContainers ==
    Containers(DepartmentTables(ExtDepartmentIds), PositionTables(ExtPositionIds),
               {Range(ENTITIES), {"departments", "job_positions"}, {"departments"}, {}})

DupContainers ==
    Containers(DepartmentTables(DupDepartmentIds), PositionTables(DupPositionIds),
               {Range(ENTITIES)})

InitView ==
    /\ gen_pc = "not_run"
    /\ departments_df = EmptyFrame
    /\ job_positions_df = EmptyFrame
    /\ employees_df = EmptyFrame
    /\ raw_files = [exists |-> FALSE, files |-> {}]
    /\ blobs \in ExtContainers
    /\ CONN_STR \in {"", "UseDevelopmentStorage=true"}
    /\ api_pc = "import"
    /\ loaded = NothingLoaded
    /\ ORG_VIEW = EmptyFrame
    /\ response = NoResponse
    /\ etl_status = "idle"
    /\ etl_pc = "idle"
    /\ files = <<>>
    /\ local_path = NoFile
    /\ container_exists = TRUE
    /\ io_failures = {}
    /\ sample = NoSample

NextView ==
    \/ ApiCheckConfig
    \/ ApiLoadDepartments
    \/ ApiLoadJobPositions
    \/ ApiLoadEmployees
    \/ ApiBuildView
    \/ HealthCheck
    \/ ListEmployees
    \/ GetEmployee
    \/ ListDepartments
    \/ SalarySummary
    \/ Reply

SpecView == InitView /\ [][NextView]_vars

(***************************************************************************)
(* The view builder alone, on tables whose keys may repeat.                *)
(***************************************************************************)
InitJoin ==
    /\ gen_pc = "not_run"
    /\ departments_df = EmptyFrame
    /\ job_positions_df = EmptyFrame
    /\ employees_df = EmptyFrame
    /\ raw_files = [exists |-> FALSE, files |-> {}]
    /\ blobs \in DupContainers
    /\ CONN_STR = "UseDevelopmentStorage=true"
    /\ api_pc = "import"
    /\ loaded = NothingLoaded
    /\ ORG_VIEW = EmptyFrame
    /\ response = NoResponse
    /\ etl_status = "idle"
    /\ etl_pc = "idle"
    /\ files = <<>>
    /\ local_path = NoFile
    /\ container_exists = TRUE
    /\ io_failures = {}
    /\ sample = NoSample

NextJoin ==
    \/ ApiCheckConfig
    \/ ApiLoadDepartments
    \/ ApiLoadJobPositions
    \/ ApiLoadEmployees
    \/ ApiBuildView

SpecJoin == InitJoin /\ [][NextJoin]_vars

(***************************************************************************)
(* generate_employees on any job positions table that holds some of the    *)
(* positions of generate_job_positions (a (department, level) pair, or a   *)
(* whole department, may have no position).                                *)
(***************************************************************************)
PartialPositions(full) ==
    {DataFrame(full.columns, SelectSeq(full.rows, LAMBDA p : p.job_position_id \in keep)) :
        keep \in SUBSET {full.rows[i].job_position_id : i \in DOMAIN full.rows}}

InitGen ==
    /\ gen_pc = "employees"
    /\ departments_df = generate_departments
    /\ job_positions_df \in PartialPositions(generate_job_positions(generate_departments))
    /\ employees_df = EmptyFrame
    /\ raw_files = [exists |-> TRUE, files |-> {}]
    /\ blobs = <<>>
    /\ CONN_STR = ""
    /\ api_pc = "import"
    /\ loaded = NothingLoaded
    /\ ORG_VIEW = EmptyFrame
    /\ response = NoResponse
    /\ etl_status = "idle"
    /\ etl_pc = "idle"
    /\ files = <<>>
    /\ local_path = NoFile
    /\ container_exists = FALSE
    /\ io_failures = {}
    /\ sample = NoSample

NextGen ==
    \/ GenerateEmployee
    \/ FinishEmployees

SpecGen == InitGen /\ [][NextGen]_vars

(***************************************************************************)
(* The age and tenure samplers on every raw draw of the bounded ranges.    *)
(***************************************************************************)
SampleAgeAndTenure ==
    /\ sample = NoSample
    /\ \E age_raw \in RawAges, tenure_raw \in RawTenures :
        sample' = [age_raw |-> age_raw, tenure_raw |-> tenure_raw,
                   age |-> generate_age(age_raw),
                   tenure_years |-> generate_tenure_years(tenure_raw, generate_age(age_raw))]
    /\ UNCHANGED <<GenVars, raw_files, blobs, CONN_STR, ApiVars, EtlVars>>

InitSampler ==
    /\ gen_pc = "employees"
    /\ departments_df = EmptyFrame
    /\ job_positions_df = EmptyFrame
    /\ employees_df = EmptyFrame
    /\ raw_files = [exists |-> FALSE, files |-> {}]
    /\ blobs = <<>>
    /\ CONN_STR = ""
    /\ api_pc = "import"
    /\ loaded = NothingLoaded
    /\ ORG_VIEW = EmptyFrame
    /\ response = NoResponse
    /\ etl_status = "idle"
    /\ etl_pc = "idle"
    /\ files = <<>>
    /\ local_path = NoFile
    /\ container_exists = FALSE
    /\ io_failures = {}
    /\ sample = NoSample

NextSampler == SampleAgeAndTenure

SpecSampler == InitSampler /\ [][NextSampler]_vars

(***************************************************************************)
(* The batch upload alone, over the states data/raw can be found in: not   *)
(* there, empty, or holding data files next to a file of another kind; the *)
(* container may exist already.                                            *)
(***************************************************************************)
RawDirectories ==
    {[exists |-> FALSE, files |-> {}],
     [exists |-> TRUE, files |-> {}],
     [exists |-> TRUE, files |-> {RawFile("notes", ".txt", EmptyFrame)}],
     [exists |-> TRUE,
      files |-> {RawFile("departments", ".parquet", generate_departments),
                 RawFile("employees", ".csv", EmptyFrame),
                 RawFile("notes", ".txt", EmptyFrame)}]}

InitEtl ==
    /\ gen_pc = "departments"
    /\ departments_df = EmptyFrame
    /\ job_positions_df = EmptyFrame
    /\ employees_df = EmptyFrame
    /\ raw_files \in RawDirectories
    /\ blobs = <<>>
    /\ CONN_STR \in {"", "UseDevelopmentStorage=true"}
    /\ api_pc = "import"
    /\ loaded = NothingLoaded
    /\ ORG_VIEW = EmptyFrame
    /\ response = NoResponse
    /\ etl_status = "idle"
    /\ etl_pc = "idle"
    /\ files = <<>>
    /\ local_path = NoFile
    /\ container_exists \in BOOLEAN
    /\ io_failures = {}
    /\ sample = NoSample

NextEtl ==
    \/ LoadStorageConfig
    \/ IterRawFiles
    \/ NextFile
    \/ CreateContainer
    \/ UploadBlob
    \/ BatchCompleted

SpecEtl == InitEtl /\ [][NextEtl]_vars


(***************************************************************************)
(* generate_dates_from_age_and_tenure on every age and tenure the samplers *)
(* produce.  A date is its proleptic Gregorian ordinal (date.toordinal()). *)
(***************************************************************************)
NumDayOffsets == 4      \* day-of-year offsets drawn, spread over 1..364

\* timedelta(days=18 * 365)
MIN_HIRE_AGE_DAYS == 18 * 365
\* date.today().year
TodayYears == {2024, 2025, 2026}
\* np.random.randint(1, 365): 1..364, of which NumDayOffsets are drawn.
DayOffsets ==
    {1 + (k * 363) \div (NumDayOffsets - 1) : k \in 0..(NumDayOffsets - 1)}

\* date(year, 1, 1).toordinal()
date_jan1(year) ==
    LET p == year - 1
    IN  365 * p + (p \div 4) - (p \div 100) + (p \div 400) + 1

\* The dates with the minimum working age counted in calendar years from
\* the year of birth, without the comparison against birth_date.
generate_dates_by_calendar_year(age, tenure, today_year, birth_day_of_year, hire_day_of_year) ==
    LET birth_year == today_year - age
    IN  [birth_date |-> date_jan1(birth_year) + birth_day_of_year,
         hire_date |-> date_jan1(birth_year + 18) + hire_day_of_year]

\* One iteration of the loop of generate_dates_from_age_and_tenure.
generate_dates_from_age_and_tenure(age, tenure, today_year, birth_day_of_year, hire_day_of_year) ==
    LET birth_year == today_year - age
        hire_year == today_year - tenure
        birth_date == date_jan1(birth_year) + birth_day_of_year
        hire_date == date_jan1(hire_year) + hire_day_of_year
        min_hire_date == birth_date + MIN_HIRE_AGE_DAYS
    IN  [birth_date |-> birth_date,
         hire_date |-> IF hire_date < min_hire_date THEN min_hire_date
                       ELSE hire_date]

\* The ages and tenures generate_age and generate_tenure_years return.
SampledAges == AGE_MIN..AGE_MAX
SampledTenures(age) == 0..Min(TENURE_CAP, Max(0, age - WORKING_AGE))

GenerateDates ==
    /\ sample.dated = FALSE
    /\ \E birth_day_of_year \in DayOffsets, hire_day_of_year \in DayOffsets :
        LET d == generate_dates_from_age_and_tenure(sample.age, sample.tenure_years,
                    sample.today_year, birth_day_of_year, hire_day_of_year)
        IN  sample' = [sample EXCEPT !.dated = TRUE,
                          !.birth_day_of_year = birth_day_of_year,
                          !.hire_day_of_year = hire_day_of_year,
                          !.birth_date = d.birth_date,
                          !.hire_date = d.hire_date]
    /\ UNCHANGED <<GenVars, raw_files, blobs, CONN_STR, ApiVars, EtlVars>>

InitDates ==
    /\ gen_pc = "employees"
    /\ departments_df = EmptyFrame
    /\ job_positions_df = EmptyFrame
    /\ employees_df = EmptyFrame
    /\ raw_files = [exists |-> FALSE, files |-> {}]
    /\ blobs = <<>>
    /\ CONN_STR = ""
    /\ api_pc = "import"
    /\ loaded = NothingLoaded
    /\ ORG_VIEW = EmptyFrame
    /\ response = NoResponse
    /\ etl_status = "idle"
    /\ etl_pc = "idle"
    /\ files = <<>>
    /\ local_path = NoFile
    /\ container_exists = FALSE
    /\ io_failures = {}
    /\ \E age \in SampledAges, today_year \in TodayYears :
        \E tenure \in SampledTenures(age) :
            sample = [age |-> age, tenure_years |-> tenure,
                      today_year |-> today_year, dated |-> FALSE,
                      birth_day_of_year |-> 0, hire_day_of_year |-> 0,
                      birth_date |-> 0, hire_date |-> 0]

NextDates == GenerateDates

SpecDates == InitDates /\ [][NextDates]_vars


(***************************************************************************)
(* Properties.                                                             *)
(***************************************************************************)
\* The level of a row of the view: its job_level, or the level of its job
\* position, or the employee's own seniority level.
RowLevel(row) ==
    IF "job_level" \in DOMAIN row THEN row["job_level"]
    ELSE IF "seniority_level_job" \in DOMAIN row THEN row["seniority_level_job"]
    ELSE row["seniority_level"]

ViewRowsOf(employee_id) ==
    {ORG_VIEW.rows[i] : i \in {j \in DOMAIN ORG_VIEW.rows :
                                  ORG_VIEW.rows[j]["employee_id"] = employee_id}}

\* C1: on a view built from the generated tables, GET /employees with
\* job_level = L (and department_id = D) answers only rows whose level is L
\* (and whose department is D).
C1_JobLevelFilter ==
    (response.endpoint = "list_employees" /\ response.args.job_level # Absent) =>
        \A i \in DOMAIN response.body : \A r \in ViewRowsOf(response.body[i].employee_id) :
            /\ RowLevel(r) = response.args.job_level[1]
            /\ response.args.department_id # Absent =>
                   r["department_id"] = response.args.department_id[1]

\* A ready service has its connection string, loaded the three blobs and
\* holds the view built from them; any other holds no view and no answer.
C2_ReadyInv ==
    /\ api_pc = "ready" =>
        /\ CONN_STR # ""
        /\ \A e \in Range(ENTITIES) :
            /\ parquet_path(e) \in DOMAIN blobs
            /\ loaded[e] = blobs[parquet_path(e)]
        /\ ORG_VIEW = _build_org_view(loaded["departments"], loaded["job_positions"],
                                      loaded["employees"])
    /\ api_pc # "ready" => response = NoResponse /\ ORG_VIEW = EmptyFrame

\* ready is entered from the merge step only and never left; a crashed
\* start stays crashed; a start without connection string goes nowhere else.
C2_ReadyStep ==
    /\ (api_pc # "ready" /\ api_pc' = "ready") => api_pc = "merge"
    /\ api_pc = "ready" => api_pc' = "ready" /\ ORG_VIEW' = ORG_VIEW
    /\ api_pc = "crashed" => api_pc' = "crashed"
    /\ (api_pc = "import" /\ CONN_STR = "") => api_pc' \in {"import", "crashed"}

\* C2: the service becomes ready once, from the merge step of a start whose
\* connection string is set and whose three blobs were loaded, with the view
\* built from them; a crashed start stays crashed; a request is answered
\* only by a ready service.
C2_SingleTransitionToReady == []C2_ReadyInv /\ [][C2_ReadyStep]_vars

C2_Witness ==
    /\ api_pc = "ready"
    /\ response.endpoint = "salary_summary"

\* The rows of the view that pass the filters of the request answered.
C3_Matches ==
    SelectSeq(ORG_VIEW.rows, LAMBDA r :
        /\ response.args.department_id # Absent =>
               r["department_id"] = response.args.department_id[1]
        /\ (response.args.job_level # Absent /\ "job_level" \in ORG_VIEW.columns) =>
               r["job_level"] = response.args.job_level[1])

C4_LevelPerGroup ==
    (response.endpoint = "salary_summary" /\ response.status = 200) =>
        {response.body.levels[i].job_level : i \in DOMAIN response.body.levels}
            = {RowLevel(ORG_VIEW.rows[i]) : i \in DOMAIN ORG_VIEW.rows}

\* C5: GET /departments lists the departments by descending headcount, and
\* departments of equal headcount in ascending department order (the order
\* of a stable sort of the groups).
C5_StableTies ==
    (response.endpoint = "list_departments" /\ response.status = 200) =>
        \A i, j \in DOMAIN response.body :
            i < j => \/ response.body[i].headcount > response.body[j].headcount
                     \/ /\ response.body[i].headcount = response.body[j].headcount
                        /\ response.body[i].department_id < response.body[j].department_id

C6_Headcounts == [i \in DOMAIN response.body |-> response.body[i].headcount]

\* C6: the headcounts of GET /departments add up to the number of rows of
\* the view, also when a department_id of an employee matches no department.
C6_HeadcountSum ==
    (response.endpoint = "list_departments" /\ response.status = 200) =>
        SumSeq(C6_Headcounts) = Len(ORG_VIEW.rows)

UniqueKey(df, key) ==
    \A i, j \in DOMAIN df.rows : df.rows[i][key] = df.rows[j][key] => i = j

KeysOf(df, key) == {df.rows[i][key] : i \in DOMAIN df.rows}

\* C8: with unique job_position_id and department_id keys the view has the
\* rows of the employees table, one for one and in order, also for an
\* employee whose job_position_id or department_id matches no row.
C8_RowCountPreserved ==
    (/\ api_pc = "ready"
     /\ UniqueKey(loaded["job_positions"], "job_position_id")
     /\ UniqueKey(loaded["departments"], "department_id")) =>
        /\ Len(ORG_VIEW.rows) = Len(loaded["employees"].rows)
        /\ \A i \in DOMAIN ORG_VIEW.rows :
            ORG_VIEW.rows[i]["employee_id"] = loaded["employees"].rows[i]["employee_id"]

\* One employee has no job position and one has no department.
C8_Witness ==
    /\ api_pc = "ready"
    /\ UniqueKey(loaded["job_positions"], "job_position_id")
    /\ UniqueKey(loaded["departments"], "department_id")
    /\ Len(loaded["employees"].rows) >= 2
    /\ \E i \in DOMAIN loaded["employees"].rows :
        loaded["employees"].rows[i]["job_position_id"]
            \notin KeysOf(loaded["job_positions"], "job_position_id")
    /\ \E i \in DOMAIN loaded["employees"].rows :
        loaded["employees"].rows[i]["department_id"]
            \notin KeysOf(loaded["departments"], "department_id")

\* The rows of the job positions table with the employee's job_position_id.
C9_PositionOf(e) ==
    {job_positions_df.rows[i] : i \in {j \in DOMAIN job_positions_df.rows :
        job_positions_df.rows[j].job_position_id = e.job_position_id}}

\* The department of the employee has a position of the employee's level.
C9_ExactExists(e) ==
    \E i \in DOMAIN job_positions_df.rows :
        /\ job_positions_df.rows[i].department_id = e.department_id
        /\ job_positions_df.rows[i].seniority_level = e.seniority_level

\* C9: the job position of every generated employee exists and is of the
\* employee's department; it is of the employee's seniority level whenever
\* the department has a position of that level.
C9_PositionMatches ==
    \A n \in DOMAIN employees_df.rows :
        LET e == employees_df.rows[n]
        IN  /\ C9_PositionOf(e) # {}
            /\ \A p \in C9_PositionOf(e) :
                /\ p.department_id = e.department_id
                /\ C9_ExactExists(e) => p.seniority_level = e.seniority_level

\* An employee placed by the fallback: no position of the level exists.
C9_Witness ==
    \E n \in DOMAIN employees_df.rows :
        /\ ~C9_ExactExists(employees_df.rows[n])
        /\ \E p \in C9_PositionOf(employees_df.rows[n]) :
            p.seniority_level # employees_df.rows[n].seniority_level

\* C10: every sampled age is in 22..65 and the tenure sampled with it is in
\* 0..age-21, after the final rounding.
C10_AgeTenureBounds ==
    sample # NoSample =>
        /\ AGE_MIN <= sample.age /\ sample.age <= AGE_MAX
        /\ 0 <= sample.tenure_years
        /\ sample.tenure_years <= sample.age - WORKING_AGE

\* The raw tenure exceeds the working life and is cut to age - 21.
C10_Witness ==
    /\ sample # NoSample
    /\ sample.tenure_raw > (sample.age - WORKING_AGE) * SampleScale
    /\ sample.tenure_years = sample.age - WORKING_AGE
    /\ sample.age_raw < AGE_MIN * SampleScale

\* C11: every generated hire_date is at least 18*365 days after the
\* birth_date generated with it, for every age in 22..65, every tenure the
\* sampler returns for that age and every pair of day-of-year offsets.
C11_HireAfterMinimumAge ==
    sample.dated => sample.hire_date >= sample.birth_date + 18 * 365

\* The closest case: the longest tenure of the age, a birth late in its year
\* and a hire early in its year.
C11_Witness ==
    /\ sample.dated
    /\ sample.tenure_years = sample.age - WORKING_AGE
    /\ sample.birth_day_of_year = 364
    /\ sample.hire_day_of_year = 1
    /\ sample.hire_date > sample.birth_date + 18 * 365

\* The per-level counts of a salary summary and their product with the
\* per-level averages, summed over the levels.
C12_CountSum(levels) ==
    SumSeq([i \in DOMAIN levels |-> levels[i].count])
C12_WeightedSum(levels) ==
    SumSeq([i \in DOMAIN levels |-> levels[i].avg_salary * levels[i].count])

\* C12: in a salary summary of a view with rows, the per-level counts sum to
\* the number of rows of the view and overall_avg_salary is within 0.01 (one
\* cent) of the mean of the per-level avg_salary weighted by the counts.
C12_WeightedAverage ==
    (/\ response.endpoint = "salary_summary"
     /\ response.status = 200
     /\ ORG_VIEW.rows # <<>>) =>
        LET levels == response.body.levels
            n == C12_CountSum(levels)
            diff == response.body.overall_avg_salary * n - C12_WeightedSum(levels)
        IN  /\ n = Len(ORG_VIEW.rows)
            /\ diff <= n
            /\ -diff <= n

\* A run of the batch upload is past the listing of data/raw only with a
\* connection string and an existing directory.
C13_UploadingInv ==
    etl_pc \in {"upload", "create_container", "upload_blob"} =>
        (CONN_STR # "" /\ raw_files.exists)

\* Without data/raw or without a connection string no step creates the
\* container or writes a blob; the run started without a connection string
\* ends at once with ValueError and the listing of a missing directory ends
\* the run with FileNotFoundError.
C13_FatalStep ==
    /\ (~raw_files.exists \/ CONN_STR = "") =>
            (blobs' = blobs /\ container_exists' = container_exists)
    /\ (etl_pc = "idle" /\ etl_status' # etl_status /\ CONN_STR = "") =>
            (etl_status' = "ValueError" /\ etl_pc' = "idle")
    /\ (etl_pc = "iter_raw_files" /\ etl_pc' # etl_pc /\ ~raw_files.exists) =>
            (etl_status' = "FileNotFoundError" /\ etl_pc' = "idle")

\* C13: a missing raw-data directory ends the batch upload with
\* FileNotFoundError, and a missing connection string with ValueError, before
\* any container creation and before any upload: no blob is written in such
\* a run.
C13_MissingDirectoryFatal == []C13_UploadingInv /\ [][C13_FatalStep]_vars

\* A run with a connection string found no data/raw and wrote nothing.
C13_Witness ==
    /\ etl_status = "FileNotFoundError"
    /\ etl_pc = "idle"
    /\ CONN_STR # ""
    /\ ~raw_files.exists
    /\ blobs = <<>>
    /\ ~container_exists

\* C14: in the batch upload the only failure that is swallowed is
\* ResourceExistsError of create_container; any other failed I/O call (an
\* other failure of create_container, open, upload_blob) ends the run as
\* failed, and no blob is written in the run after it.
C14_FailureEndsRun ==
    io_failures # {} => (etl_status = "failed" /\ etl_pc = "idle")

\* The snapshot the start of the service built from the loaded tables.
C15_Snapshot ==
    _build_org_view(loaded["departments"], loaded["job_positions"],
                    loaded["employees"])

\* A ready service holds the snapshot built at its start, and the answer it
\* is giving is an answer of the endpoint to the request's arguments on that
\* snapshot.
C15_AnswersFromSnapshot ==
    api_pc = "ready" =>
        /\ ORG_VIEW = C15_Snapshot
        /\ response.endpoint = "list_employees" =>
            response.body \in list_employees(C15_Snapshot,
                response.args.department_id, response.args.job_level,
                response.args.limit, response.args.offset)
        /\ response.endpoint = "get_employee" =>
            [status |-> response.status, body |-> response.body]
                = get_employee(C15_Snapshot, response.args.employee_id)
        /\ response.endpoint = "list_departments" =>
            [status |-> response.status, body |-> response.body]
                \in list_departments(C15_Snapshot)
        /\ response.endpoint = "salary_summary" =>
            [status |-> response.status, body |-> response.body]
                = salary_summary(C15_Snapshot)

\* No step of a ready service changes the view or the tables it was built
\* from.
C15_ViewKept ==
    api_pc = "ready" => (ORG_VIEW' = ORG_VIEW /\ loaded' = loaded /\ api_pc' = "ready")

C16_Layout ==
    {BASE_PREFIX \o "/" \o e \o "/" \o e \o ext :
        e \in Range(ENTITIES), ext \in {".csv", ".parquet"}}

\* The table the generator produced for an entity.
C16_Generated(e) ==
    CASE e = "departments" -> departments_df
      [] e = "job_positions" -> job_positions_df
      [] e = "employees" -> employees_df

\* C16: the path the batch upload gives <entity>.parquet is the path the
\* service loads the entity from; the container never holds a blob outside
\* {base_prefix}/{entity}/{entity}.{ext}, however often the upload runs;
\* after a completed upload of the generator's files the three blobs the
\* service loads are there with the generated tables, and a ready service
\* has loaded exactly these tables.
C16_UploadMeetsLoad ==
    /\ \A f \in raw_files.files :
        f.suffix = ".parquet" =>
            /\ f.stem \in Range(ENTITIES)
            /\ build_blob_path(BASE_PREFIX, f) = load_blob_path(f.stem, f.stem \o ".parquet")
    /\ DOMAIN blobs \subseteq C16_Layout
    /\ etl_status = "completed" =>
        /\ DOMAIN blobs = C16_Layout
        /\ \A e \in Range(ENTITIES) :
            blobs[load_blob_path(e, e \o ".parquet")] = C16_Generated(e)
    /\ api_pc = "ready" =>
        \A e \in Range(ENTITIES) : loaded[e] = C16_Generated(e)

\* The service became ready on uploaded tables and a later run of the
\* upload has written all its files again: the container holds the same six
\* blobs.
C16_Witness ==
    /\ api_pc = "ready"
    /\ loaded["employees"].rows # <<>>
    /\ etl_pc = "upload"
    /\ files = <<>>
    /\ Cardinality(DOMAIN blobs) = 6

=============================================================================
